---- MODULE Spec2Model ----
(***************************************************************************)
(* quicssh-rs: a QUIC-tunnelled TCP relay.                                 *)
(*                                                                         *)
(* Two state machines are modelled.                                        *)
(*                                                                         *)
(*   Spec         the server process of src/src/server.rs: start-up        *)
(*                (configuration, default route, bind), the accept loop    *)
(*                and the session handlers it spawns, for several          *)
(*                connections.                                             *)
(*                                                                         *)
(*   SessionSpec  one tunnel session end to end: the client process of     *)
(*                src/src/client.rs (start-up, the three tasks of its      *)
(*                select!, its exit through src/src/main.rs) and the       *)
(*                server's handle_connection serving it, byte by byte.     *)
(*                                                                         *)
(* FairSpec and FairSessionSpec add the scheduling the runtime gives, for  *)
(* the properties that say something eventually happens.                   *)
(***************************************************************************)
EXTENDS Integers, Sequences, FiniteSets, TLC

(***************************************************************************)
(* Bounds of the model.                                                    *)
(***************************************************************************)
\* connections that reach the server's endpoint in one run
MaxConns == 3

(***************************************************************************)
(* Addresses and names.                                                    *)
(***************************************************************************)
\* server.rs:126  SocketAddr::new(Ipv4Addr::LOCALHOST.into(), 22)
LOCALHOST_22 == "127.0.0.1:22"

\* the value a run may give to --proxy-to (server.rs:31-32)
ProxyToArg == "10.0.0.9:22"

\* the keys a configuration file's [proxy] table may hold (server.rs:93); the
\* file may spell the host name alpha with a capital
RouteKeys == {"default", "alpha", "Alpha"}

\* the address the file gives to each key; every key has an address of its own
FileAddr(k) ==
  CASE k = "default" -> "10.0.0.1:22"
    [] k = "alpha"   -> "10.0.0.5:2222"
    [] k = "Alpha"   -> "10.0.0.6:22"

\* the [proxy] tables a configuration file may hold: any subset of the keys
\* that spells a host name in one way only
FileTables ==
  { [k \in D |-> FileAddr(k)] :
      D \in { E \in SUBSET RouteKeys : ~({"alpha", "Alpha"} \subseteq E) } }

\* ServerConf::new(): the empty table (server.rs:98-102)
ServerConf_new == [k \in {} |-> LOCALHOST_22]

\* the server_name a handshake may give, a host name in lower case as the TLS
\* layer hands it over; "None" is a handshake without SNI
ServerNames == {"alpha", "unknown", "None"}

\* conn.remote_address().ip().to_string() of the peers of this model
RemoteIp == "192.0.2.7"

(***************************************************************************)
(* The server process: state.                                              *)
(***************************************************************************)
VARIABLES
  conf_path,      \* options.conf_path: "none", or a file that is "ok" / "bad"
  file_proxy,     \* the [proxy] table written in the file
  proxy_to,       \* options.proxy_to: "None" or an address
  conf,           \* conf.proxy, once loaded
  default_proxy,  \* the effective default; "unset" before it is computed
  spc,            \* where server::run stands
  sresult,        \* how server::run ended: "running", "Err", "Panic"
  sexit,          \* the server process's exit code; -1 while it runs
  nconn,          \* connections that reached the endpoint so far
  server_name,    \* per connection: the SNI its peer presents
  incoming,       \* connections waiting in endpoint.accept(), in arrival order
  cur,            \* the connection whose handshake the loop awaits; 0 if none
  hs,             \* per connection: "none", "pending", "ok", "failed"
  hpc,            \* per connection: where its handle_connection stands
  proxy_for,      \* per connection: the address given to handle_connection
  dialed,         \* per connection: the addresses TcpStream::connect was called with
  accepted,       \* per connection: streams taken by accept_bi
  dial_err,       \* history: per connection, whether its dial failed
  fails_before    \* history: per connection, the dials that had failed when
                  \* its handshake completed

svars == << conf_path, file_proxy, proxy_to, conf, default_proxy, spc, sresult,
            sexit, nconn, server_name, incoming, cur, hs, hpc, proxy_for,
            dialed, accepted, dial_err, fails_before >>

ConnIds == 1..MaxConns

(***************************************************************************)
(* Pure functions of server::run.                                          *)
(***************************************************************************)
\* a variant that asks --proxy-to first: the property of the effective default
\* must tell it from DefaultProxyOf
DefaultProxyOptFirst(table, opt) ==
  IF opt # "None"
    THEN opt
    ELSE IF "default" \in DOMAIN table THEN table["default"] ELSE LOCALHOST_22

\* server.rs:120-127: conf.proxy.get("default"), else --proxy-to, else 127.0.0.1:22
DefaultProxyOf(table, opt) ==
  IF "default" \in DOMAIN table
    THEN table["default"]
    ELSE IF opt # "None" THEN opt ELSE LOCALHOST_22

\* server.rs:154-160: server_name, or the peer's IP when the handshake had none
SniOf(name) == IF name = "None" THEN RemoteIp ELSE name

\* a variant that never looks into the table: the routing property must tell
\* it from RouteLookup
RouteLookupNoTable(table, sni, dflt) == dflt

\* server.rs:163: conf.proxy.get(&sni).unwrap_or(&default_proxy).clone()
RouteLookup(table, sni, dflt) ==
  IF sni \in DOMAIN table THEN table[sni] ELSE dflt

\* main.rs:91-115 and the Rust runtime: main returns normally after logging an
\* Err, so the process exits 0; a panic of the main thread exits 101
PanicExit == 101
MainExit(result) == IF result = "Panic" THEN PanicExit ELSE 0

(***************************************************************************)
(* The server process: initial state.                                      *)
(***************************************************************************)
SInit ==
  /\ conf_path \in {"none", "ok", "bad"}
  /\ file_proxy \in FileTables
  /\ (conf_path # "ok" => file_proxy = ServerConf_new)
  /\ proxy_to \in {"None", ProxyToArg}
  /\ conf = ServerConf_new
  /\ default_proxy = "unset"
  /\ spc = "load_conf"
  /\ sresult = "running"
  /\ sexit = -1
  /\ nconn = 0
  /\ server_name = [c \in ConnIds |-> "None"]
  /\ incoming = << >>
  /\ cur = 0
  /\ hs = [c \in ConnIds |-> "none"]
  /\ hpc = [c \in ConnIds |-> "none"]
  /\ proxy_for = [c \in ConnIds |-> "unset"]
  /\ dialed = [c \in ConnIds |-> << >>]
  /\ accepted = [c \in ConnIds |-> 0]
  /\ dial_err = [c \in ConnIds |-> FALSE]
  /\ fails_before = [c \in ConnIds |-> 0]

(***************************************************************************)
(* server::run, start-up (server.rs:107-132).                              *)
(***************************************************************************)
\* server::run returns (or panics) and main ends the process (main.rs:93-115)
ServerReturn(result) ==
  /\ spc' = "exited"
  /\ sresult' = result
  /\ sexit' = MainExit(result)

\* server.rs:109-117: read and parse the file, `?` returns the error
LoadConf ==
  /\ spc = "load_conf"
  /\ IF conf_path = "bad"
       THEN /\ ServerReturn("Err")
            /\ conf' = conf
       ELSE /\ spc' = "default"
            /\ UNCHANGED << sresult, sexit >>
            /\ conf' = IF conf_path = "ok" THEN file_proxy ELSE ServerConf_new
  /\ UNCHANGED << conf_path, file_proxy, proxy_to, default_proxy, nconn,
                  server_name, incoming, cur, hs, hpc, proxy_for, dialed,
                  accepted, dial_err, fails_before >>

\* server.rs:119-128
ComputeDefault ==
  /\ spc = "default"
  /\ default_proxy' = DefaultProxyOf(conf, proxy_to)
  /\ spc' = "bind"
  /\ UNCHANGED << conf_path, file_proxy, proxy_to, conf, sresult, sexit, nconn,
                  server_name, incoming, cur, hs, hpc, proxy_for, dialed,
                  accepted, dial_err, fails_before >>

\* server.rs:131: make_server_endpoint(options.listen).unwrap()
Bind ==
  /\ spc = "bind"
  /\ \E ok \in BOOLEAN :
       IF ok THEN /\ spc' = "accept"
                  /\ UNCHANGED << sresult, sexit >>
             ELSE ServerReturn("Panic")
  /\ UNCHANGED << conf_path, file_proxy, proxy_to, conf, default_proxy,
                  nconn, server_name, incoming, cur, hs, hpc, proxy_for, dialed,
                  accepted, dial_err, fails_before >>

(***************************************************************************)
(* The accept loop (server.rs:135-180).                                    *)
(***************************************************************************)
\* a peer's first packet reaches the bound endpoint; its TLS hello names `name`
ArriveOf(name) ==
  /\ spc \in {"accept", "handshake"}
  /\ nconn < MaxConns
  /\ server_name' = [server_name EXCEPT ![nconn + 1] = name]
  /\ nconn' = nconn + 1
  /\ incoming' = Append(incoming, nconn + 1)
  /\ hs' = [hs EXCEPT ![nconn + 1] = "pending"]
  /\ UNCHANGED << conf_path, file_proxy, proxy_to, conf, default_proxy, spc,
                  sresult, sexit, cur, hpc, proxy_for, dialed,
                  accepted, dial_err, fails_before >>

Arrive == \E name \in ServerNames : ArriveOf(name)

\* a variant that takes the next connection while a handshake is still
\* awaited, as a loop that spawned each handshake would: the property of
\* handshakes taken one at a time must tell it from Accept
AcceptDuringHandshake ==
  /\ spc \in {"accept", "handshake"}
  /\ incoming # << >>
  /\ cur' = Head(incoming)
  /\ incoming' = Tail(incoming)
  /\ spc' = "handshake"
  /\ UNCHANGED << conf_path, file_proxy, proxy_to, conf, default_proxy, sresult,
                  sexit, nconn, server_name, hs, hpc, proxy_for, dialed,
                  accepted, dial_err, fails_before >>

\* server.rs:137-142: endpoint.accept().await yields the next connection
Accept ==
  /\ spc = "accept"
  /\ incoming # << >>
  /\ cur' = Head(incoming)
  /\ incoming' = Tail(incoming)
  /\ spc' = "handshake"
  /\ UNCHANGED << conf_path, file_proxy, proxy_to, conf, default_proxy, sresult,
                  sexit, nconn, server_name, hs, hpc, proxy_for, dialed,
                  accepted, dial_err, fails_before >>

\* server.rs:145-176: the handshake completes; SNI, route, spawn
HandshakeOk ==
  /\ spc = "handshake"
  /\ hs' = [hs EXCEPT ![cur] = "ok"]
  /\ proxy_for' = [proxy_for EXCEPT
       ![cur] = RouteLookup(conf, SniOf(server_name[cur]), default_proxy)]
  /\ hpc' = [hpc EXCEPT ![cur] = "dial"]
  /\ cur' = 0
  /\ spc' = "accept"
  /\ fails_before' = [fails_before EXCEPT
       ![cur] = Cardinality({d \in ConnIds : dial_err[d]})]
  /\ UNCHANGED << conf_path, file_proxy, proxy_to, conf, default_proxy, sresult,
                  sexit, nconn, server_name, incoming, dialed, accepted,
                  dial_err >>

\* a variant whose failed handshake ends server::run, as `incoming_conn.await?`
\* would: the property of failed handshakes must tell it from HandshakeErr
HandshakeErrFatal ==
  /\ spc = "handshake"
  /\ hs' = [hs EXCEPT ![cur] = "failed"]
  /\ cur' = 0
  /\ ServerReturn("Err")
  /\ UNCHANGED << conf_path, file_proxy, proxy_to, conf, default_proxy, nconn,
                  server_name, incoming, hpc, proxy_for, dialed, accepted,
                  dial_err, fails_before >>

\* server.rs:147-150: the handshake fails; log and continue
HandshakeErr ==
  /\ spc = "handshake"
  /\ hs' = [hs EXCEPT ![cur] = "failed"]
  /\ cur' = 0
  /\ spc' = "accept"
  /\ UNCHANGED << conf_path, file_proxy, proxy_to, conf, default_proxy, sresult,
                  sexit, nconn, server_name, incoming, hpc, proxy_for, dialed,
                  accepted, dial_err, fails_before >>

(***************************************************************************)
(* handle_connection, as the accept loop's spawned task (server.rs:184-290)*)
(***************************************************************************)
\* a variant that goes on to accept_bi whatever the dial gave: the property of
\* the handler's first steps must tell it from Dial
DialIgnoreErr(c) ==
  /\ hpc[c] = "dial"
  /\ dialed' = [dialed EXCEPT ![c] = Append(@, proxy_for[c])]
  /\ hpc' = [hpc EXCEPT ![c] = "accept_bi"]
  /\ \E ok \in BOOLEAN : dial_err' = [dial_err EXCEPT ![c] = ~ok]
  /\ UNCHANGED << conf_path, file_proxy, proxy_to, conf, default_proxy, spc,
                  sresult, sexit, nconn, server_name, incoming, cur, hs,
                  proxy_for, accepted, fails_before >>

\* a variant that dials again after a failed dial: the single-dial property
\* must tell it from Dial
DialRetry(c) ==
  /\ hpc[c] = "dial"
  /\ dialed' = [dialed EXCEPT ![c] = Append(@, proxy_for[c])]
  /\ \E ok \in BOOLEAN :
       /\ hpc' = [hpc EXCEPT ![c] = IF ok THEN "accept_bi" ELSE "dial"]
       /\ dial_err' = [dial_err EXCEPT ![c] = ~ok]
  /\ UNCHANGED << conf_path, file_proxy, proxy_to, conf, default_proxy, spc,
                  sresult, sexit, nconn, server_name, incoming, cur, hs,
                  proxy_for, accepted, fails_before >>

\* a variant whose failed dial ends server::run, as a dial awaited with `?` in
\* the accept loop would: the isolation property must tell it from Dial
DialFatal(c) ==
  /\ hpc[c] = "dial"
  /\ dialed' = [dialed EXCEPT ![c] = Append(@, proxy_for[c])]
  /\ \E ok \in BOOLEAN :
       /\ hpc' = [hpc EXCEPT ![c] = IF ok THEN "accept_bi" ELSE "done"]
       /\ dial_err' = [dial_err EXCEPT ![c] = ~ok]
       /\ IF ok THEN UNCHANGED << spc, sresult, sexit >>
                ELSE ServerReturn("Err")
  /\ UNCHANGED << conf_path, file_proxy, proxy_to, conf, default_proxy, nconn,
                  server_name, incoming, cur, hs, proxy_for, accepted,
                  fails_before >>

\* server.rs:186-193: TcpStream::connect(proxy_for); on Err the handler returns
Dial(c) ==
  /\ hpc[c] = "dial"
  /\ dialed' = [dialed EXCEPT ![c] = Append(@, proxy_for[c])]
  /\ \E ok \in BOOLEAN :
       /\ hpc' = [hpc EXCEPT ![c] = IF ok THEN "accept_bi" ELSE "done"]
       /\ dial_err' = [dial_err EXCEPT ![c] = ~ok]
  /\ UNCHANGED << conf_path, file_proxy, proxy_to, conf, default_proxy, spc,
                  sresult, sexit, nconn, server_name, incoming, cur, hs,
                  proxy_for, accepted, fails_before >>

\* a variant that goes back to accept_bi, as a handler serving every stream of
\* its connection would: the one-stream property must tell it from AcceptBiOk
AcceptBiAgain(c) ==
  /\ hpc[c] = "accept_bi"
  /\ accepted' = [accepted EXCEPT ![c] = @ + 1]
  /\ UNCHANGED << conf_path, file_proxy, proxy_to, conf, default_proxy, spc,
                  sresult, sexit, nconn, server_name, incoming, cur, hs, hpc,
                  proxy_for, dialed, dial_err, fails_before >>

\* server.rs:198-199: connection.accept_bi() yields the peer's stream
AcceptBiOk(c) ==
  /\ hpc[c] = "accept_bi"
  /\ hpc' = [hpc EXCEPT ![c] = "copy"]
  /\ accepted' = [accepted EXCEPT ![c] = @ + 1]
  /\ UNCHANGED << conf_path, file_proxy, proxy_to, conf, default_proxy, spc,
                  sresult, sexit, nconn, server_name, incoming, cur, hs,
                  proxy_for, dialed, dial_err, fails_before >>

\* server.rs:200-203: connection.accept_bi() fails; log and return
AcceptBiErr(c) ==
  /\ hpc[c] = "accept_bi"
  /\ hpc' = [hpc EXCEPT ![c] = "done"]
  /\ UNCHANGED << conf_path, file_proxy, proxy_to, conf, default_proxy, spc,
                  sresult, sexit, nconn, server_name, incoming, cur, hs,
                  proxy_for, dialed, accepted, dial_err, fails_before >>

\* server.rs:281-287: one of the two copy tasks returns and select! ends the
\* handler (the copy loops themselves are the session machine's, below)
SelectExit(c) ==
  /\ hpc[c] = "copy"
  /\ hpc' = [hpc EXCEPT ![c] = "done"]
  /\ UNCHANGED << conf_path, file_proxy, proxy_to, conf, default_proxy, spc,
                  sresult, sexit, nconn, server_name, incoming, cur, hs,
                  proxy_for, dialed, accepted, dial_err, fails_before >>


(***************************************************************************)
(* One session end to end: state.                                          *)
(*                                                                         *)
(* The client process of client.rs, and what handle_connection holds for   *)
(* the connection this client makes.  That connection is the server's      *)
(* first, so hpc[1], proxy_for[1], dialed[1] and accepted[1] above are its *)
(* handler's.                                                              *)
(***************************************************************************)
\* the bytes a run's standard input, or its downstream TCP peer, may write
MaxData == 2
\* the copy buffers hold 2048 bytes (client.rs:196,235; server.rs:212,244);
\* the model reads at most this many bytes at once, and checks with it raised
ChunkMax == 2

VARIABLES
  url,         \* the command line's URL: "bad" (no URL), "http", "quic"
  cpc,         \* where the client process stands
  cresult,     \* how client::run ended: "running", "Ok", "Err", "Panic"
  cexit,       \* the client process's exit code; -1 while it runs
  cend,        \* what ended client::run: the branch or the error it returned on
  sock_list,   \* the addresses the URL resolved to
  remote,      \* sock_list[0]
  bound,       \* whether the client's endpoint has been bound
  tried,       \* the addresses endpoint.connect was called with
  opened,      \* streams the client opened with open_bi
  stdin_all,   \* all the bytes written to standard input in this run
  stdin,       \* those of them standard input still holds
  stdin_eof,   \* whether standard input has been closed behind them
  cw,          \* client write_thread: "read" or "write"
  cwbuf,       \* its buf[..n]
  cr,          \* client recv_thread: "read", "write", "flush", "spin"
  crbuf,       \* its buf[..n]
  outbuf,      \* the BufWriter around stdout
  stdout,      \* bytes that reached standard output
  csig,        \* the signal task: "register" or "wait"
  winner,      \* the branch of the client's select! that completed
  c2s,         \* the stream, client to server: bytes written and not yet read
  c2s_fin,     \* the client's finish of that direction has reached the server
  s2c,         \* the stream, server to client
  s2c_fin,     \* the server's finish of that direction has reached the client
  cclose,      \* the close the client issued: NotClosed or ApplicationClosed
  sclose,      \* the close the server issued
  cseen,       \* how the client's side saw the connection end: NotClosed,
               \* ApplicationClosed (by the peer) or TimedOut
  sseen,       \* the same for the server's side
  sr,          \* server recv_thread (downstream to QUIC): "read" or "write"
  srbuf,       \* its buf[..n]
  sw,          \* server write_thread (QUIC to downstream): "read", "write", "spin"
  swbuf,       \* its buf[..n]
  tcp_all,     \* all the bytes the downstream peer writes in this run
  tcp_in,      \* those of them it still has to write
  tcp_in_eof,  \* whether the downstream peer has closed its side behind them
  tcp_out,     \* bytes that reached the downstream peer
  hend,        \* history: what ended the handler of the client's connection
  fault        \* whether anything outside normal operation has happened: a
               \* start-up failure, an I/O error, a lost connection, a signal

cprocv == << cpc, cresult, cexit, cend >>
cstartv == << url, sock_list, remote, bound, tried, opened, stdin_all,
             tcp_all >>
cwv == << cw, cwbuf, stdin, stdin_eof >>
crv == << cr, crbuf, outbuf, stdout >>
csv == << csig, winner >>
netv == << c2s, c2s_fin, s2c, s2c_fin, cclose, sclose, cseen, sseen >>
srv == << sr, srbuf, tcp_in, tcp_in_eof >>
swv == << sw, swbuf, tcp_out >>

\* what ended client::run is cend; hend says the same of the server's handler

cvars == << cprocv, cstartv, cwv, crv, csv, netv, srv, swv, fault, hend >>

vars == << svars, cvars >>

\* how a connection ended, as quinn's ConnectionError tells it to the reads and
\* writes of client.rs:219,253 and server.rs:229,270
NotClosed == [kind |-> "none", code |-> 0, reason |-> ""]
TimedOut == [kind |-> "TimedOut", code |-> 0, reason |-> ""]
ApplicationClosed(code, reason) ==
  [kind |-> "ApplicationClosed", code |-> code, reason |-> reason]

\* the bytes written at one end: 1, 2, ..., n, each different from the others
Data(n) == [i \in 1..n |-> i]

\* a variant that hands over the last n bytes in place of the first n: the
\* ordering property must tell it from Take
TakeFromEnd(s, n) == SubSeq(s, Len(s) - n + 1, Len(s))

\* buf[..n] and what is left behind it (client.rs:211,251; server.rs:225,263)
Take(s, n) == SubSeq(s, 1, n)
Drop(s, n) == SubSeq(s, n + 1, Len(s))
Min(a, b) == IF a < b THEN a ELSE b

\* the addresses a host name may resolve to (client.rs:144-146)
ResolvedLists == { << >>, << "198.51.100.1:4433" >>,
                   << "198.51.100.1:4433", "198.51.100.2:4433" >> }

\* the client process before main runs
CInit ==
  /\ url \in {"bad", "http", "quic"}
  /\ cpc = "parse"
  /\ cresult = "running"
  /\ cexit = -1
  /\ cend = "none"
  /\ sock_list = << >>
  /\ remote = "unset"
  /\ bound = FALSE
  /\ tried = << >>
  /\ opened = 0
  /\ \E n \in 0..MaxData : stdin_all = Data(n)
  /\ stdin = stdin_all
  /\ stdin_eof = FALSE
  /\ cw = "read"
  /\ cwbuf = << >>
  /\ cr = "read"
  /\ crbuf = << >>
  /\ outbuf = << >>
  /\ stdout = << >>
  /\ csig = "register"
  /\ winner = "none"
  /\ c2s = << >>
  /\ c2s_fin = FALSE
  /\ s2c = << >>
  /\ s2c_fin = FALSE
  /\ cclose = NotClosed
  /\ sclose = NotClosed
  /\ cseen = NotClosed
  /\ sseen = NotClosed
  /\ sr = "read"
  /\ srbuf = << >>
  /\ sw = "read"
  /\ swbuf = << >>
  /\ \E n \in 0..MaxData : tcp_all = Data(n)
  /\ tcp_in = tcp_all
  /\ tcp_in_eof = FALSE
  /\ tcp_out = << >>
  /\ fault = FALSE
  /\ hend = "none"

\* no client in this run: the server process is observed alone
CIdle ==
  /\ CInit
  /\ url = "quic"
  /\ stdin_all = << >>
  /\ tcp_all = << >>

\* a server that has started without a configuration file and without
\* --proxy-to, and waits in endpoint.accept() (server.rs:137)
SRunning ==
  /\ conf_path = "none"
  /\ file_proxy = ServerConf_new
  /\ proxy_to = "None"
  /\ conf = ServerConf_new
  /\ default_proxy = DefaultProxyOf(ServerConf_new, "None")
  /\ spc = "accept"
  /\ sresult = "running"
  /\ sexit = -1
  /\ nconn = 0
  /\ server_name = [c \in ConnIds |-> "None"]
  /\ incoming = << >>
  /\ cur = 0
  /\ hs = [c \in ConnIds |-> "none"]
  /\ hpc = [c \in ConnIds |-> "none"]
  /\ proxy_for = [c \in ConnIds |-> "unset"]
  /\ dialed = [c \in ConnIds |-> << >>]
  /\ accepted = [c \in ConnIds |-> 0]
  /\ dial_err = [c \in ConnIds |-> FALSE]
  /\ fails_before = [c \in ConnIds |-> 0]

(***************************************************************************)
(* The client process: main and the start of client::run.                  *)
(***************************************************************************)
\* the server name the client's URL gives (client.rs:152-155)
ClientSni == "alpha"

\* clap's exit code for a command line it cannot parse (main.rs:47)
ClapErrorExit == 2

\* client::run returns (or panics) at one of its exits, and main ends the
\* process (main.rs:104-115)
ClientReturn(result, cause) ==
  /\ cpc' = "exited"
  /\ cresult' = result
  /\ cend' = cause
  /\ cexit' = MainExit(result)

\* main.rs:47: Cli::parse(); a URL that does not parse ends the process there
ClapParse ==
  /\ cpc = "parse"
  /\ IF url = "bad"
       THEN /\ cpc' = "exited"
            /\ cexit' = ClapErrorExit
            /\ fault' = TRUE
       ELSE /\ cpc' = "scheme"
            /\ cexit' = cexit
            /\ fault' = fault
  /\ UNCHANGED << svars, hend, cresult, cend, cstartv, cwv, crv, csv, netv, srv, swv >>

\* a variant that looks at the scheme only after the host has been resolved,
\* letting every URL through here: the property of BadScheme must tell it
\* from CheckScheme
CheckSchemeSkip ==
  /\ cpc = "scheme"
  /\ cpc' = "resolve"
  /\ UNCHANGED << svars, hend, cresult, cend, cexit, fault, cstartv, cwv, crv, csv,
                  netv, srv, swv >>

\* client.rs:137-139
CheckScheme ==
  /\ cpc = "scheme"
  /\ IF url # "quic"
       THEN /\ ClientReturn("Err", "BadScheme")
            /\ fault' = TRUE
       ELSE /\ cpc' = "resolve"
            /\ UNCHANGED << cresult, cend, cexit, fault >>
  /\ UNCHANGED << svars, hend, cstartv, cwv, crv, csv, netv, srv, swv >>

\* client.rs:144-149: socket_addrs(..).map_err(..)?, then sock_list[0]
Resolve ==
  /\ cpc = "resolve"
  /\ \/ /\ ClientReturn("Err", "UnresolvedHost")
        /\ fault' = TRUE
        /\ UNCHANGED << sock_list, remote >>
     \/ \E l \in ResolvedLists :
          /\ sock_list' = l
          /\ IF l = << >>
               THEN /\ ClientReturn("Panic", "index out of bounds")
                    /\ fault' = TRUE
                    /\ remote' = remote
               ELSE /\ cpc' = "bind"
                    /\ remote' = l[1]
                    /\ UNCHANGED << cresult, cend, cexit, fault >>
  /\ UNCHANGED << svars, hend, url, bound, tried, opened, stdin_all, tcp_all, cwv, crv,
                  csv, netv, srv, swv >>

\* client.rs:161-175: make_client_endpoint(..)?
BindClient ==
  /\ cpc = "bind"
  /\ \E ok \in BOOLEAN :
       IF ok THEN /\ cpc' = "connect"
                  /\ bound' = TRUE
                  /\ UNCHANGED << cresult, cend, cexit, fault >>
             ELSE /\ ClientReturn("Err", "BindFailed")
                  /\ bound' = bound
                  /\ fault' = TRUE
  /\ UNCHANGED << svars, hend, url, sock_list, remote, tried, opened, stdin_all,
                  tcp_all, cwv, crv, csv, netv, srv, swv >>

\* client.rs:178: endpoint.connect(remote, sni).unwrap() panics when connect
\* refuses its arguments
ConnectRefused ==
  /\ cpc = "connect"
  /\ tried' = Append(tried, remote)
  /\ ClientReturn("Panic", "ConnectError")
  /\ fault' = TRUE
  /\ UNCHANGED << svars, hend, url, sock_list, remote, bound, opened, stdin_all,
                  tcp_all, cwv, crv, csv, netv, srv, swv >>

\* client.rs:178: endpoint.connect(remote, sni) starts the handshake
ConnectStart ==
  /\ cpc = "connect"
  /\ tried' = Append(tried, remote)
  /\ cpc' = "handshake"
  /\ UNCHANGED << cresult, cend, cexit, url, sock_list, remote, bound, opened,
                  stdin_all, tcp_all, cwv, crv, csv, netv, srv, swv, hend >>

\* client.rs:178: .await.unwrap() panics when the handshake fails
ClientHandshakeErr ==
  /\ cpc = "handshake"
  /\ ClientReturn("Panic", "HandshakeFailed")
  /\ fault' = TRUE
  /\ UNCHANGED << svars, hend, cstartv, cwv, crv, csv, netv, srv, swv >>

\* client.rs:178: the handshake completes on the client's side
ClientHandshakeOk ==
  /\ cpc = "handshake"
  /\ hs[1] = "pending"
  /\ cpc' = "open_bi"
  /\ UNCHANGED << svars, hend, cresult, cend, cexit, fault, cstartv, cwv, crv, csv,
                  netv, srv, swv >>

\* client.rs:188-191: connection.open_bi().await.map_err(..)?
OpenBi ==
  /\ cpc = "open_bi"
  /\ IF cseen = NotClosed
       THEN /\ opened' = opened + 1
            /\ cpc' = "select"
            /\ UNCHANGED << cresult, cend, cexit >>
       ELSE /\ opened' = opened
            /\ ClientReturn("Err", "StreamOpenFailed")
  /\ UNCHANGED << svars, hend, fault, url, sock_list, remote, bound, tried, stdin_all,
                  tcp_all, cwv, crv, csv, netv, srv, swv >>

(***************************************************************************)
(* The client's three tasks and its select! (client.rs:193-279).           *)
(*                                                                         *)
(* The tasks are branches of one select!, polled by one task of the        *)
(* runtime.  A branch that loops without ever suspending (recv_thread      *)
(* after Ok(None): every later read returns Ok(None) at once) keeps that   *)
(* poll from returning, so no other branch runs: cr = "spin".              *)
(***************************************************************************)
ClientPolling == cpc = "select" /\ cr # "spin"

\* a variant that closes without a reason whichever branch completed: the
\* property of the close reason must tell it from SelectDone
SelectDoneNoReason(branch, cause) ==
  /\ winner' = branch
  /\ ClientReturn("Ok", cause)
  /\ cw' = "dropped" /\ cwbuf' = << >>
  /\ cr' = "dropped" /\ crbuf' = << >> /\ outbuf' = << >>
  /\ csig' = "dropped"
  /\ cclose' = IF cseen = NotClosed THEN ApplicationClosed(0, "") ELSE cclose
  /\ \E f \in BOOLEAN : c2s_fin' = (c2s_fin \/ (f /\ cseen = NotClosed))
  /\ UNCHANGED << c2s, s2c, s2c_fin, sclose, cseen, sseen >>

\* client.rs:269-279: a branch completes; the other futures are dropped with
\* their buffers (a dropped SendStream is finished, and the finish may or may
\* not leave before the close), the signal branch closes with "signal HUP",
\* run returns Ok(()) and dropping the connection closes it with code 0 and
\* no reason
SelectDone(branch, cause) ==
  /\ winner' = branch
  /\ ClientReturn("Ok", cause)
  /\ cw' = "dropped" /\ cwbuf' = << >>
  /\ cr' = "dropped" /\ crbuf' = << >> /\ outbuf' = << >>
  /\ csig' = "dropped"
  /\ cclose' = IF cseen = NotClosed
                 THEN ApplicationClosed(0, IF branch = "signal"
                                             THEN "signal HUP" ELSE "")
                 ELSE cclose
  /\ \E f \in BOOLEAN : c2s_fin' = (c2s_fin \/ (f /\ cseen = NotClosed))
  /\ UNCHANGED << c2s, s2c, s2c_fin, sclose, cseen, sseen >>

\* a variant whose task returns on a read of zero bytes, as a copy loop that
\* treats end of file as its end would: the property on the causes of a
\* session's end must tell it from CwRead
CwReadEndsAtEof ==
  /\ ClientPolling
  /\ cw = "read"
  /\ IF stdin # << >>
       THEN /\ \E n \in 1..Min(ChunkMax, Len(stdin)) :
                 /\ cwbuf' = Take(stdin, n)
                 /\ stdin' = Drop(stdin, n)
            /\ cw' = "write"
            /\ UNCHANGED << cprocv, crv, csv, netv >>
       ELSE /\ stdin_eof
            /\ SelectDone("write", "stdin EOF")
            /\ UNCHANGED << stdin, stdout >>
  /\ UNCHANGED << svars, hend, cstartv, stdin_eof, srv, swv, fault >>

\* client.rs:241-247: reader.read(&mut buf) returns n > 0, or 0 at end of file,
\* and then the loop continues
CwRead ==
  /\ ClientPolling
  /\ cw = "read"
  /\ IF stdin # << >>
       THEN \E n \in 1..Min(ChunkMax, Len(stdin)) :
              /\ cwbuf' = Take(stdin, n)
              /\ stdin' = Drop(stdin, n)
              /\ cw' = "write"
       ELSE /\ stdin_eof
            /\ UNCHANGED << cwbuf, stdin, cw >>
  /\ UNCHANGED << svars, hend, cprocv, cstartv, stdin_eof, crv, csv, netv,
                  srv, swv, fault >>

\* whoever writes to standard input closes it after the last byte
StdinCloses ==
  /\ cpc = "select"
  /\ stdin = << >>
  /\ ~stdin_eof
  /\ stdin_eof' = TRUE
  /\ UNCHANGED << svars, hend, cprocv, cstartv, cw, cwbuf, stdin, crv, csv, netv, srv,
                  swv, fault >>

\* client.rs:257-260: reader.read fails
CwReadErr ==
  /\ ClientPolling
  /\ cw = "read"
  /\ SelectDone("write", "stdin read error")
  /\ fault' = TRUE
  /\ UNCHANGED << svars, hend, cstartv, stdin, stdin_eof, stdout, srv, swv >>

\* client.rs:251-254: send.write_all(&buf[..n])
CwWrite ==
  /\ ClientPolling
  /\ cw = "write"
  /\ IF cseen = NotClosed
       THEN /\ c2s' = c2s \o cwbuf
            /\ cwbuf' = << >>
            /\ cw' = "read"
            /\ UNCHANGED << cprocv, cr, crbuf, outbuf, csv, c2s_fin, s2c,
                            s2c_fin, cclose, sclose, cseen, sseen >>
       ELSE SelectDone("write", "stream write error")
  /\ UNCHANGED << svars, hend, cstartv, stdin, stdin_eof, stdout, srv, swv,
                  fault >>

\* client.rs:202-223: recv.read(&mut buf): Ok(Some(n)), Ok(None) once the peer
\* has finished the stream (continue), or Err once the connection is lost
CrRead ==
  /\ ClientPolling
  /\ cr = "read"
  /\ IF s2c # << >>
       THEN /\ \E n \in 1..Min(ChunkMax, Len(s2c)) :
                 /\ crbuf' = Take(s2c, n)
                 /\ s2c' = Drop(s2c, n)
            /\ cr' = "write"
            /\ UNCHANGED << cprocv, cw, cwbuf, outbuf, csv, c2s, c2s_fin,
                            s2c_fin, cclose, sclose, cseen, sseen >>
       ELSE IF s2c_fin
         THEN /\ cr' = "spin"
              /\ UNCHANGED << cprocv, cw, cwbuf, crbuf, outbuf, csv, netv >>
         ELSE /\ cseen # NotClosed
              /\ SelectDone("recv", "stream read error")
  /\ UNCHANGED << svars, hend, cstartv, stdin, stdin_eof, stdout, srv, swv,
                  fault >>

\* client.rs:211-217: writer.write_all(&buf[..n]) fills the BufWriter; it fails
\* when standard output refuses what the buffer must give up
CrWrite ==
  /\ ClientPolling
  /\ cr = "write"
  /\ \/ /\ outbuf' = outbuf \o crbuf
        /\ crbuf' = << >>
        /\ cr' = "flush"
        /\ UNCHANGED << cprocv, cw, cwbuf, csv, netv, fault >>
     \/ /\ SelectDone("recv", "stdout write error")
        /\ fault' = TRUE
  /\ UNCHANGED << svars, hend, cstartv, stdin, stdin_eof, stdout, srv, swv >>

\* client.rs:226-228: writer.flush(); an error is logged and the loop goes on
\* with the bytes still in the BufWriter
CrFlush ==
  /\ ClientPolling
  /\ cr = "flush"
  /\ \/ /\ stdout' = stdout \o outbuf
        /\ outbuf' = << >>
        /\ fault' = fault
     \/ /\ UNCHANGED << stdout, outbuf >>
        /\ fault' = TRUE
  /\ cr' = "read"
  /\ UNCHANGED << svars, hend, cprocv, cstartv, cwv, crbuf, csv, netv, srv,
                  swv >>

\* client.rs:304-310: signal(SignalKind::hangup()); on Err the task returns,
\* which completes the select!'s signal branch
CsRegister ==
  /\ ClientPolling
  /\ csig = "register"
  /\ \/ /\ csig' = "wait"
        /\ UNCHANGED << cprocv, cw, cwbuf, cr, crbuf, outbuf, winner, netv,
                        fault >>
     \/ /\ SelectDone("signal", "SignalRegisterFailed")
        /\ fault' = TRUE
  /\ UNCHANGED << svars, hend, cstartv, stdin, stdin_eof, stdout, srv, swv >>

\* client.rs:313-314: SIGHUP is delivered and stream.recv() returns
CsSignal ==
  /\ ClientPolling
  /\ csig = "wait"
  /\ SelectDone("signal", "signal HUP")
  /\ fault' = TRUE
  /\ UNCHANGED << svars, hend, cstartv, stdin, stdin_eof, stdout, srv, swv >>

(***************************************************************************)
(* handle_connection for the client's connection (server.rs:184-290).      *)
(***************************************************************************)
\* handle_connection returns before it holds a stream: the connection is
\* dropped, which closes it with code 0 and no reason
DropConnection ==
  /\ sclose' = IF sseen = NotClosed THEN ApplicationClosed(0, "") ELSE sclose
  /\ UNCHANGED << c2s, c2s_fin, s2c, s2c_fin, cclose, cseen, sseen >>

\* a variant that leaves the other task and its buffer in place, as joining
\* the two tasks would: the teardown property must tell it from DropSession
DropSessionLeaveTasks ==
  /\ UNCHANGED << sr, srbuf, sw, swbuf >>
  /\ sclose' = IF sseen = NotClosed THEN ApplicationClosed(0, "") ELSE sclose
  /\ \E f \in BOOLEAN : s2c_fin' = (s2c_fin \/ (f /\ sseen = NotClosed))
  /\ UNCHANGED << c2s, c2s_fin, s2c, cclose, cseen, sseen >>

\* server.rs:281-290: select! returns; the two tasks are dropped with their
\* buffers and stream halves, and the connection: the send half is finished
\* (the finish may or may not leave before the close) and the connection is
\* closed with code 0 and no reason
DropSession ==
  /\ sr' = "dropped" /\ srbuf' = << >>
  /\ sw' = "dropped" /\ swbuf' = << >>
  /\ sclose' = IF sseen = NotClosed THEN ApplicationClosed(0, "") ELSE sclose
  /\ \E f \in BOOLEAN : s2c_fin' = (s2c_fin \/ (f /\ sseen = NotClosed))
  /\ UNCHANGED << c2s, c2s_fin, s2c, cclose, cseen, sseen >>

\* as for the client: write_thread looping on Ok(None) never suspends, and
\* recv_thread, polled by the same task, no longer runs
ServerPolling == hpc[1] = "copy" /\ sw # "spin"

\* the client has completed its side of the handshake
ClientHandshaken ==
  cpc \in {"open_bi", "select"} \/ opened > 0 \/ cend = "StreamOpenFailed"

\* server.rs:186-193 for the session's connection
SDial ==
  /\ Dial(1)
  /\ IF hpc'[1] = "done"
       THEN DropConnection /\ fault' = TRUE /\ hend' = "dial error"
       ELSE UNCHANGED << netv, fault, hend >>
  /\ UNCHANGED << cprocv, cstartv, cwv, crv, csv, srv, swv >>

\* server.rs:198-199: accept_bi returns once the client has used its stream
SAcceptBiOk ==
  /\ c2s # << >> \/ c2s_fin
  /\ AcceptBiOk(1)
  /\ UNCHANGED cvars

\* server.rs:200-203: accept_bi fails once the connection is lost
SAcceptBiErr ==
  /\ sseen # NotClosed
  /\ ~(c2s # << >> \/ c2s_fin)
  /\ AcceptBiErr(1)
  /\ DropConnection
  /\ hend' = "accept_bi error"
  /\ UNCHANGED << cprocv, cstartv, cwv, crv, csv, srv, swv, fault >>

\* server.rs:216-222: ssh_recv.read(&mut buf) returns n > 0, or 0 once the
\* downstream peer has closed its side, and then the loop continues
SrRead ==
  /\ ServerPolling
  /\ sr = "read"
  /\ IF tcp_in # << >>
       THEN \E n \in 1..Min(ChunkMax, Len(tcp_in)) :
              /\ srbuf' = Take(tcp_in, n)
              /\ tcp_in' = Drop(tcp_in, n)
              /\ sr' = "write"
       ELSE /\ tcp_in_eof
            /\ UNCHANGED << srbuf, tcp_in, sr >>
  /\ UNCHANGED << svars, cprocv, cstartv, cwv, crv, csv, netv, tcp_in_eof, swv,
                  fault, hend >>

\* the downstream peer closes its side after its last byte
TcpInCloses ==
  /\ hpc[1] = "copy"
  /\ tcp_in = << >>
  /\ ~tcp_in_eof
  /\ tcp_in_eof' = TRUE
  /\ UNCHANGED << svars, cprocv, cstartv, cwv, crv, csv, netv, sr, srbuf,
                  tcp_in, swv, fault, hend >>

\* server.rs:233-236: ssh_recv.read fails; recv_thread returns
SrReadErr ==
  /\ ServerPolling
  /\ sr = "read"
  /\ SelectExit(1)
  /\ DropSession
  /\ fault' = TRUE
  /\ hend' = "downstream read error"
  /\ UNCHANGED << cprocv, cstartv, cwv, crv, csv, tcp_in, tcp_in_eof, tcp_out >>

\* server.rs:225-231: quinn_send.write_all(&buf[..n])
SrWrite ==
  /\ ServerPolling
  /\ sr = "write"
  /\ IF sseen = NotClosed
       THEN /\ s2c' = s2c \o srbuf
            /\ srbuf' = << >>
            /\ sr' = "read"
            /\ UNCHANGED << svars, sw, swbuf, c2s, c2s_fin, s2c_fin, cclose,
                            sclose, cseen, sseen, hend >>
       ELSE /\ SelectExit(1)
            /\ DropSession
            /\ hend' = "stream write error"
  /\ UNCHANGED << cprocv, cstartv, cwv, crv, csv, tcp_in, tcp_in_eof, tcp_out,
                  fault >>

\* server.rs:248-276: quinn_recv.read(&mut buf): Ok(Some(n)), Ok(None) once
\* the client has finished the stream (continue), or Err
SwRead ==
  /\ ServerPolling
  /\ sw = "read"
  /\ IF c2s # << >>
       THEN /\ \E n \in 1..Min(ChunkMax, Len(c2s)) :
                 /\ swbuf' = Take(c2s, n)
                 /\ c2s' = Drop(c2s, n)
            /\ sw' = "write"
            /\ UNCHANGED << svars, sr, srbuf, c2s_fin, s2c, s2c_fin, cclose,
                            sclose, cseen, sseen, hend >>
       ELSE IF c2s_fin
         THEN /\ sw' = "spin"
              /\ UNCHANGED << svars, sr, srbuf, swbuf, netv, hend >>
         ELSE /\ sseen # NotClosed
              /\ SelectExit(1)
              /\ DropSession
              /\ hend' = "stream read error"
  /\ UNCHANGED << cprocv, cstartv, cwv, crv, csv, tcp_in, tcp_in_eof, tcp_out,
                  fault >>

\* server.rs:263-264: ssh_write.write_all(&buf[..n]) succeeds
SwWrite ==
  /\ ServerPolling
  /\ sw = "write"
  /\ tcp_out' = tcp_out \o swbuf
  /\ swbuf' = << >>
  /\ sw' = "read"
  /\ UNCHANGED << svars, cprocv, cstartv, cwv, crv, csv, netv, srv, fault,
                  hend >>

\* server.rs:265-268: ssh_write.write_all fails; write_thread returns
SwWriteErr ==
  /\ ServerPolling
  /\ sw = "write"
  /\ SelectExit(1)
  /\ DropSession
  /\ fault' = TRUE
  /\ hend' = "downstream write error"
  /\ UNCHANGED << cprocv, cstartv, cwv, crv, csv, tcp_in, tcp_in_eof, tcp_out >>

(***************************************************************************)
(* The accept loop for the client's connection, and the connection itself. *)
(***************************************************************************)
\* client.rs:178 and the endpoint of server.rs:131: the client's first packet
\* reaches the server
SConnectStart == ConnectStart /\ ArriveOf(ClientSni) /\ fault' = fault

\* client.rs:178: the client's first packet reaches no server
SConnectLost == ConnectStart /\ fault' = TRUE /\ UNCHANGED svars

SAccept == Accept /\ UNCHANGED cvars

\* server.rs:145-176: the server's side of the handshake completes after the
\* client's
SHandshakeOk ==
  /\ ClientHandshaken
  /\ HandshakeOk
  /\ UNCHANGED cvars

\* server.rs:147-150
SHandshakeErr ==
  /\ HandshakeErr
  /\ DropConnection
  /\ fault' = TRUE
  /\ UNCHANGED << cprocv, cstartv, cwv, crv, csv, srv, swv, hend >>

\* the client's process is gone, or never held this connection
ClientGone == cpc = "exited"

\* the server's handler for the connection is gone
ServerGone == hpc[1] = "done" \/ hs[1] = "failed"

\* the server's side of the connection ends once the client's process is
\* gone.  client::run returns, and main ends the process, right after the close
\* (client.rs:272-278, main.rs:104-115): nothing waits for the close to be
\* sent.  It reaches the server or it never leaves, and then the server hears
\* nothing for max_idle_timeout (server.rs:64)
ServerConnEvent ==
  /\ ClientGone
  /\ hpc[1] \in {"dial", "accept_bi", "copy"}
  /\ sseen = NotClosed
  /\ \/ /\ cclose # NotClosed
        /\ sseen' = cclose
     \/ sseen' = TimedOut
  /\ UNCHANGED << svars, cprocv, cstartv, cwv, crv, csv, c2s, c2s_fin, s2c,
                  s2c_fin, cclose, sclose, cseen, srv, swv, fault, hend >>

\* the client's side of the connection ends once the server's handler is
\* gone: the server's process lives on, and its close, or its answer to the
\* client's next keep-alive packet (client.rs:102), reaches the client
ClientConnEvent ==
  /\ ServerGone
  /\ sclose # NotClosed
  /\ cpc \in {"open_bi", "select"}
  /\ cseen = NotClosed
  /\ cseen' = sclose
  /\ UNCHANGED << svars, cprocv, cstartv, cwv, crv, csv, c2s, c2s_fin, s2c,
                  s2c_fin, cclose, sclose, sseen, srv, swv, fault, hend >>

\* client.rs:99,102 and server.rs:64,67: the transport parameters, in ms
MaxIdleTimeout == 60000
KeepAliveInterval == 1000

\* how long after the peer's end a side sees it, at most: a close (or a reset)
\* answers the next keep-alive packet at the latest, silence lasts the whole
\* idle timeout
EndDelay(seen) ==
  IF seen = TimedOut THEN MaxIdleTimeout ELSE KeepAliveInterval

(***************************************************************************)
(* The specifications.                                                     *)
(***************************************************************************)
Next ==
  \/ LoadConf /\ UNCHANGED cvars
  \/ ComputeDefault /\ UNCHANGED cvars
  \/ Bind /\ UNCHANGED cvars
  \/ Arrive /\ UNCHANGED cvars
  \/ Accept /\ UNCHANGED cvars
  \/ HandshakeOk /\ UNCHANGED cvars
  \/ HandshakeErr /\ UNCHANGED cvars
  \/ \E c \in ConnIds : Dial(c) /\ UNCHANGED cvars
  \/ \E c \in ConnIds : AcceptBiOk(c) /\ UNCHANGED cvars
  \/ \E c \in ConnIds : AcceptBiErr(c) /\ UNCHANGED cvars
  \/ \E c \in ConnIds : SelectExit(c) /\ UNCHANGED cvars

Init == SInit /\ CIdle

Spec == Init /\ [][Next]_vars

\* the accept loop is a task the runtime keeps polling, and a handshake ends,
\* one way or the other, within the handshake's time limit
FairSpec ==
  /\ Spec
  /\ WF_vars(Accept /\ UNCHANGED cvars)
  /\ WF_vars((HandshakeOk \/ HandshakeErr) /\ UNCHANGED cvars)

\* what the code does when nothing fails
SessionProgress ==
  \/ ClapParse
  \/ CheckScheme
  \/ Resolve
  \/ BindClient
  \/ SConnectStart
  \/ ClientHandshakeOk
  \/ OpenBi
  \/ CwRead
  \/ CwWrite
  \/ CrRead
  \/ CrWrite
  \/ CrFlush
  \/ CsRegister
  \/ StdinCloses
  \/ TcpInCloses
  \/ SAccept
  \/ SHandshakeOk
  \/ SDial
  \/ SAcceptBiOk
  \/ SAcceptBiErr
  \/ SrRead
  \/ SrWrite
  \/ SwRead
  \/ SwWrite
  \/ ServerConnEvent
  \/ ClientConnEvent

\* failures and signals
SessionFault ==
  \/ ConnectRefused
  \/ SConnectLost
  \/ ClientHandshakeErr
  \/ CwReadErr
  \/ CsSignal
  \/ SHandshakeErr
  \/ SrReadErr
  \/ SwWriteErr

SessionNext == SessionProgress \/ SessionFault

SessionInit == SRunning /\ CInit

SessionSpec == SessionInit /\ [][SessionNext]_vars

\* the runtime polls every task that can run, and the transport delivers:
\* what the code does when nothing fails is not postponed for ever; failures
\* and signals may or may not come
FairSessionSpec == SessionSpec /\ WF_vars(SessionProgress)

(***************************************************************************)
(* Properties.                                                             *)
(***************************************************************************)
\* the routing key of connection c and the address its table entry, or the
\* effective default, gives: written out from the server's state
RoutingKey(c) == IF server_name[c] = "None" THEN RemoteIp ELSE server_name[c]
RouteOf(c) ==
  IF RoutingKey(c) \in DOMAIN conf THEN conf[RoutingKey(c)] ELSE default_proxy

\* C1: for every connection the server accepted, with routing key sni, the
\* address given to the session handler is proxy[sni] when sni is a key of the
\* route table and the effective default otherwise, and every address the
\* handler dialed is that address: no other address is dialed for the session.
C1_RouteExact ==
  \A c \in ConnIds :
    /\ hpc[c] # "none" => proxy_for[c] = RouteOf(c)
    /\ \A i \in 1..Len(dialed[c]) : dialed[c][i] = RouteOf(c)

\* one connection names a key of the table and was dialed at its entry, another
\* names no key and was dialed at the effective default, which differs
C1_Witness ==
  \E c, d \in ConnIds :
    /\ server_name[c] = "alpha" /\ "alpha" \in DOMAIN conf
    /\ dialed[c] = << conf["alpha"] >>
    /\ server_name[d] = "unknown"
    /\ dialed[d] = << default_proxy >>
    /\ default_proxy # conf["alpha"]

\* C2: the effective default computed at start-up is the file's
\* proxy["default"] whenever the file has that key, even if --proxy-to is given
\* as well; else the value of --proxy-to when given; else 127.0.0.1:22.
C2_EffectiveDefault ==
  default_proxy # "unset" =>
    default_proxy =
      IF conf_path = "ok" /\ "default" \in DOMAIN file_proxy
        THEN file_proxy["default"]
        ELSE IF proxy_to # "None" THEN proxy_to ELSE "127.0.0.1:22"

\* the file has the key and --proxy-to is given too: the file's entry won
C2_Witness ==
  /\ conf_path = "ok" /\ "default" \in DOMAIN file_proxy
  /\ proxy_to = ProxyToArg
  /\ default_proxy = file_proxy["default"]
  /\ default_proxy # proxy_to

\* C3: every byte sequence written at one end of a session appears at the
\* other end, complete and in order: in a run in which nothing fails, what
\* was written to standard input eventually is what reached the downstream
\* peer, and what the downstream peer wrote is what reached standard output.
C3_Transparency ==
  <>(fault \/ (tcp_out = stdin_all /\ stdout = tcp_all))

\* C4: a session whose dial failed does not stop the acceptor or touch another
\* session: while dials have failed the accept loop is still running; the step
\* in which a dial fails changes nothing of the loop or of any other
\* connection; a connection whose handshake completed after failed dials is
\* routed to route[sni] or the effective default; and every connection that
\* reached the endpoint has its handshake taken up by the loop.
C4_Isolation ==
  /\ []((\E c \in ConnIds : dial_err[c]) =>
          spc \in {"accept", "handshake"} /\ sresult = "running")
  /\ [][\A c \in ConnIds :
          (dial_err'[c] /\ ~dial_err[c]) =>
            /\ << spc, cur, incoming, nconn, conf, default_proxy >>' =
                 << spc, cur, incoming, nconn, conf, default_proxy >>
            /\ \A d \in ConnIds \ {c} :
                 << hs[d], hpc[d], proxy_for[d], dialed[d], accepted[d] >>' =
                   << hs[d], hpc[d], proxy_for[d], dialed[d], accepted[d] >>]_vars
  /\ [](\A c \in ConnIds :
          fails_before[c] > 0 =>
            /\ proxy_for[c] = RouteOf(c)
            /\ \A i \in 1..Len(dialed[c]) : dialed[c][i] = RouteOf(c))
  /\ \A c \in ConnIds : (hs[c] = "pending") ~> (hs[c] # "pending")

\* two dials had failed when a later connection's handshake completed; that
\* connection was routed by its table entry, dialed there, and is being served
C4_Witness ==
  \E c \in ConnIds :
    /\ fails_before[c] >= 2
    /\ server_name[c] = "alpha" /\ "alpha" \in DOMAIN conf
    /\ dialed[c] = << conf["alpha"] >>
    /\ hpc[c] = "copy" /\ accepted[c] = 1
    /\ spc = "accept"

\* C5: when a copy task of the client or of the server ends, the session ends
\* on that side, and the other peer sees the stream or the connection closed
\* within one keep-alive interval.
C5_TeardownSymmetry ==
  /\ winner \in {"recv", "write"} =>
       /\ cpc = "exited"
       /\ sseen # NotClosed => EndDelay(sseen) <= KeepAliveInterval
  /\ (accepted[1] = 1 /\ hpc[1] = "done") =>
       /\ sr = "dropped" /\ sw = "dropped"
       /\ cseen # NotClosed => EndDelay(cseen) <= KeepAliveInterval

\* C6: SIGHUP delivered to a client with an active session ends the client's
\* process with exit code 0, and the server sees the connection closed with
\* application error code 0 and reason "signal HUP", within the idle timeout.
C6_SignalShutdown ==
  (cend = "signal HUP" /\ cclose # NotClosed) =>
    /\ cpc = "exited" /\ cexit = 0
    /\ sseen # NotClosed =>
         /\ sseen = ApplicationClosed(0, "signal HUP")
         /\ EndDelay(sseen) <= MaxIdleTimeout

\* C7: the client's session ends once standard input has reached end of file.
C7_StdinEofTerminates ==
  (cpc = "select" /\ stdin = << >> /\ stdin_eof) ~> (cpc = "exited")

\* the endings of client::run that are not clean: the failures of
\* client.rs:178 and 188-191, and the errors the copy tasks return on
UncleanEndings ==
  {"HandshakeFailed", "StreamOpenFailed", "stdin read error",
   "stream write error", "stream read error", "stdout write error"}

\* C8: client::run returns success on a clean ending and failure otherwise: a
\* handshake failure, a stream-open failure, or a copy task ending on a stream
\* or local I/O error gives a failure (an Err, or a panic), and success is
\* given by no such ending.
C8_SuccessOnlyWhenClean ==
  (cpc = "exited" /\ cend \in UncleanEndings) => cresult \in {"Err", "Panic"}

\* the start-up errors of the client that are fatal
ClientStartupErrors == {"BadScheme", "UnresolvedHost", "BindFailed"}

\* C9: the process exits with code 0 on success and with another code on every
\* fatal start-up error: a bad URL (a URL that does not parse, or BadScheme for
\* http://h:4433), a bind failure, a configuration file that does not parse.
C9_ExitCodes ==
  /\ (cpc = "exited" /\ cresult = "Ok") => cexit = 0
  /\ (cpc = "exited" /\ (url = "bad" \/ cend \in ClientStartupErrors)) =>
       cexit # 0
  /\ spc = "exited" => sexit # 0

\* C10: a connection carries at most one bidirectional stream for the whole
\* life of its session: the client never opens a second stream and no handler
\* ever accepts a second.
C10_OneStream ==
  /\ opened <= 1
  /\ \A c \in ConnIds : accepted[c] <= 1

\* the client opened its stream, the handler accepted it, bytes went both ways
\* over it, and both sides have since ended
C10_Witness ==
  /\ opened = 1 /\ accepted[1] = 1
  /\ tcp_out # << >> /\ stdout # << >>
  /\ cpc = "exited" /\ hpc[1] = "done"

\* C11: a connection whose SNI is no key of the route table is forwarded to
\* the effective default exactly once; a session dials at most once, also
\* after a failed dial, and never dials the address of another route.
C11_SingleDial ==
  \A c \in ConnIds :
    /\ Len(dialed[c]) <= 1
    /\ (RoutingKey(c) \notin DOMAIN conf /\ hpc[c] \in {"accept_bi", "copy", "done"})
         => dialed[c] = << default_proxy >>
    /\ \A i \in 1..Len(dialed[c]) :
         dialed[c][i] \notin
           { conf[k] : k \in DOMAIN conf \ {RoutingKey(c)} } \ {RouteOf(c)}

\* the table has routes, a connection named none of them, its one dial went to
\* the effective default and failed, and its handler has ended
C11_Witness ==
  \E c \in ConnIds :
    /\ DOMAIN conf = {"default", "alpha"}
    /\ server_name[c] = "unknown"
    /\ dial_err[c] /\ hpc[c] = "done"
    /\ dialed[c] = << default_proxy >>

\* C12: when the client's signal handler cannot be registered, the signal path
\* disables itself: the signal waiter does not end the session, which goes on
\* copying and ends only when a copy task ends; the signal branch of the
\* select! completes only on a delivered signal.
C12_SignalPathDisabled ==
  winner = "signal" => cend = "signal HUP"

\* C13: in the client's reader task the end of the stream (the peer finished
\* its sending side) ends the task, and with it the client's session: the
\* reader is not still running after it has read the end of the stream.
C13_ReaderEofTerminates ==
  cr = "spin" => cpc = "exited"

\* C14: when one of the client's three tasks completes, the other two are
\* ended and the connection is closed with application error code 0; the
\* reason is "signal HUP" exactly when the signal waiter completed, and empty
\* when a copy task completed.
C14_CloseReason ==
  winner # "none" =>
    /\ cpc = "exited"
    /\ cw = "dropped" /\ cr = "dropped" /\ csig = "dropped"
    /\ cseen = NotClosed => cclose # NotClosed
    /\ cclose # NotClosed =>
         /\ cclose.kind = "ApplicationClosed" /\ cclose.code = 0
         /\ cclose.reason = "signal HUP" <=> winner = "signal"
         /\ winner \in {"recv", "write"} => cclose.reason = ""

\* the signal waiter completed on a delivered SIGHUP while both copy tasks
\* were at work, and the connection was closed with "signal HUP"
C14_Witness ==
  /\ winner = "signal" /\ cend = "signal HUP"
  /\ cclose = ApplicationClosed(0, "signal HUP")
  /\ opened = 1 /\ tcp_out # << >> /\ stdin # << >>

\* the handler of the client's connection had its copy tasks and has ended
HandlerEnded == accepted[1] = 1 /\ hpc[1] = "done"

\* C15: when one copy task of the server's handler finishes, the other is
\* stopped and the session dropped: both tasks are gone with what they held,
\* and from then on the session reads no byte from, and writes no byte to, the
\* stream or the downstream connection.
C15_HandlerStops ==
  /\ [](HandlerEnded =>
          /\ sr = "dropped" /\ sw = "dropped"
          /\ srbuf = << >> /\ swbuf = << >>)
  /\ [][HandlerEnded =>
          /\ HandlerEnded'
          /\ tcp_in' = tcp_in /\ tcp_out' = tcp_out
          /\ Len(c2s') >= Len(c2s) /\ SubSeq(c2s', 1, Len(c2s)) = c2s
          /\ Len(s2c') <= Len(s2c)]_vars

\* the handler ended after it had relayed bytes, while the downstream peer
\* still had bytes to give and the stream still held bytes of the client
C15_Witness ==
  /\ HandlerEnded
  /\ tcp_in # << >> /\ c2s # << >>
  /\ tcp_out # << >>

\* C16: a failed handshake is never fatal to the acceptor: for a connection
\* whose handshake failed no route is looked up and no handler is spawned;
\* the accept loop goes on, so that every connection that arrives has its
\* handshake taken up, and one whose handshake succeeds after a failed one
\* gets its handler.
C16_HandshakeFailureNotFatal ==
  /\ [](\A c \in ConnIds :
          hs[c] = "failed" =>
            /\ proxy_for[c] = "unset" /\ hpc[c] = "none"
            /\ dialed[c] = << >> /\ accepted[c] = 0
            /\ spc \in {"accept", "handshake"} /\ sresult = "running")
  /\ [](\A c \in ConnIds : hs[c] = "ok" => hpc[c] # "none")
  /\ \A c \in ConnIds :
       (hs[c] = "pending" /\ \E b \in ConnIds : hs[b] = "failed")
         ~> (hs[c] \in {"ok", "failed"})

\* connections are taken in the order they arrived: two handshakes failed,
\* and the connection after them completed its handshake and is being served
C16_Witness ==
  /\ hs[1] = "failed" /\ hs[2] = "failed"
  /\ hs[3] = "ok" /\ hpc[3] = "copy"
  /\ proxy_for[3] = RouteOf(3)

\* the handler of the client's connection has moved no byte
NothingCopied ==
  /\ tcp_in = tcp_all /\ tcp_out = << >> /\ s2c = << >>
  /\ srbuf = << >> /\ swbuf = << >>

\* C17: the handler dials the downstream address before it accepts the
\* stream.  When the dial fails the session ends with no stream accepted and
\* no copy task started, and the connection is dropped; when accepting the
\* stream fails the session ends with no copy task started as well.
C17_DialThenAccept ==
  /\ \A c \in ConnIds :
       /\ hpc[c] \in {"accept_bi", "copy"} =>
            (dialed[c] = << proxy_for[c] >> /\ ~dial_err[c])
       /\ accepted[c] > 0 => (dialed[c] = << proxy_for[c] >> /\ ~dial_err[c])
       /\ dial_err[c] => (hpc[c] = "done" /\ accepted[c] = 0)
  /\ accepted[1] = 0 => NothingCopied
  /\ (hpc[1] = "done" /\ accepted[1] = 0) =>
       (sclose # NotClosed \/ sseen # NotClosed)

\* the dial failed; the handler ended and dropped the connection without
\* taking the stream on which the client had already written
C17_Witness ==
  /\ dial_err[1] /\ hpc[1] = "done" /\ accepted[1] = 0
  /\ sclose = ApplicationClosed(0, "")
  /\ c2s # << >> /\ tcp_all # << >>

\* s is the beginning of t
IsPrefix(s, t) == Len(s) <= Len(t) /\ s = SubSeq(t, 1, Len(s))

\* the bytes a copy task has read so far at its sending end
ReadOf(all, left) == SubSeq(all, 1, Len(all) - Len(left))

C19_BadSchemeFirst ==
  url = "http" =>
    /\ cpc \in {"parse", "scheme", "exited"}
    /\ cpc = "exited" => (cresult = "Err" /\ cend = "BadScheme")
    /\ sock_list = << >> /\ remote = "unset"
    /\ ~bound /\ tried = << >> /\ opened = 0 /\ nconn = 0
    /\ stdin = stdin_all /\ cwbuf = << >> /\ c2s = << >>

\* the run with http://h:4433 has ended on BadScheme with its standard input,
\* which held bytes, untouched
C19_Witness ==
  /\ url = "http" /\ cpc = "exited" /\ cend = "BadScheme"
  /\ stdin_all # << >> /\ stdin = stdin_all

\* the ways host resolution gives no address: an error, or an empty list
NoAddressEndings == {"UnresolvedHost", "index out of bounds"}

\* C20: when resolving the URL's host gives no address (an error, or an empty
\* list) the client fails with UnresolvedHost as a returned failure, having
\* bound no endpoint and attempted no connection; when it gives addresses the
\* first one is used and no other is ever tried.
C20_ResolveFirstOrFail ==
  /\ (cpc = "exited" /\ cend \in NoAddressEndings) =>
       /\ cresult = "Err" /\ cend = "UnresolvedHost"
       /\ ~bound /\ tried = << >>
  /\ sock_list # << >> =>
       /\ remote = sock_list[1]
       /\ Len(tried) <= 1
       /\ \A i \in 1..Len(tried) : tried[i] = sock_list[1]

\* C21: backpressure: each copy task awaits the write of its current chunk
\* before it issues the next read, so a task about to read holds nothing, and
\* each task holds at most one chunk, of at most the buffer's size; the
\* reader's buffered standard output is no queue behind it.
C21_Backpressure ==
  /\ Len(cwbuf) <= ChunkMax /\ Len(srbuf) <= ChunkMax /\ Len(swbuf) <= ChunkMax
  /\ Len(crbuf) + Len(outbuf) <= ChunkMax
  /\ cw = "read" => cwbuf = << >>
  /\ sr = "read" => srbuf = << >>
  /\ sw = "read" => swbuf = << >>
  /\ cr = "read" => (crbuf = << >> /\ outbuf = << >>)

\* a host name with its letters in lower case
Fold(name) == IF name = "Alpha" THEN "alpha" ELSE name

\* C22: route keys are compared without regard to letter case: a connection
\* whose SNI equals a key of the table up to case is routed to that key's
\* address, and not to the default.
C22_CaseInsensitiveKeys ==
  \A c \in ConnIds :
    hpc[c] # "none" =>
      \A k \in DOMAIN conf :
        Fold(k) = Fold(RoutingKey(c)) => proxy_for[c] = conf[k]

\* the failures of client::run before its copy tasks start (client.rs:137-191)
PreCopyEndings ==
  {"BadScheme", "UnresolvedHost", "index out of bounds", "BindFailed",
   "ConnectError", "HandshakeFailed", "StreamOpenFailed"}

\* the errors that end a copy task of the client (client.rs:207-223, 251-260)
ClientIoErrors ==
  {"stdin read error", "stream write error", "stream read error",
   "stdout write error"}

\* the two ways the client's signal waiter completes (client.rs:304-314)
SignalEndings == {"SignalRegisterFailed", "signal HUP"}

\* the errors that end a copy task of the server (server.rs:225-236, 265-275)
ServerIoErrors ==
  {"downstream read error", "stream write error", "stream read error",
   "downstream write error"}

\* the failures of handle_connection before its copy tasks start
\* (server.rs:186-203)
HandlerPreCopyEndings == {"dial error", "accept_bi error"}

\* C23: a copy task ends only on an I/O error: a read of zero bytes from
\* standard input or from the downstream socket, and the "none" outcome of a
\* stream read, leave the task in its loop, so a session ends only through a
\* read or write error (the loss of the connection included), through the
\* client's signal waiter completing, or through a failure before the copy
\* tasks start.
C23_EndsOnlyOnError ==
  /\ cpc = "exited" =>
       \/ winner = "none" /\ (url = "bad" \/ cend \in PreCopyEndings)
       \/ winner = "signal" /\ cend \in SignalEndings
       \/ winner \in {"recv", "write"} /\ cend \in ClientIoErrors
  /\ (cpc = "exited" /\ cend \in {"stream read error", "stream write error"}) =>
       cseen # NotClosed
  /\ hpc[1] = "done" =>
       \/ hend \in HandlerPreCopyEndings /\ accepted[1] = 0
       \/ hend \in ServerIoErrors /\ accepted[1] = 1
  /\ (hpc[1] = "done" /\ hend \in {"stream read error", "stream write error"}) =>
       sseen # NotClosed
  /\ cr = "spin" => (cpc = "select" /\ winner = "none")
  /\ sw = "spin" => (hpc[1] = "copy" /\ hend = "none")

\* both inputs have ended and have been read to their ends, every byte has
\* been delivered, and both sides are still copying
C23_Witness ==
  /\ stdin_eof /\ stdin = << >> /\ cw = "read"
  /\ tcp_in_eof /\ tcp_in = << >> /\ sr = "read"
  /\ Len(stdin_all) = MaxData /\ tcp_out = stdin_all
  /\ Len(tcp_all) = MaxData /\ stdout = tcp_all
  /\ cpc = "select" /\ winner = "none"
  /\ hpc[1] = "copy" /\ hend = "none"

\* the handshake of connection c has completed or failed
HandshakeOver(c) == hs[c] \in {"ok", "failed"}

\* the handler of connection c can take its next step (server.rs:174-176: it
\* is a task of its own)
HandlerCanStep(c) ==
  ENABLED (Dial(c) \/ AcceptBiOk(c) \/ AcceptBiErr(c) \/ SelectExit(c))

\* C24: the acceptor takes handshakes strictly one at a time: it awaits the
\* end of connection k's handshake inside the accept loop before it accepts
\* connection k+1.  At most one handshake is in progress, every connection
\* before it has had its handshake and none after it has been accepted; a
\* connection is accepted only when no handshake is in progress, so a
\* handshake that has not ended holds back every later connection; and the
\* handlers already spawned can take their steps all the while.
C24_OneHandshakeAtATime ==
  /\ []((spc = "handshake") <=> (cur # 0))
  /\ [](cur # 0 =>
          /\ cur \in 1..nconn /\ hs[cur] = "pending"
          /\ \A b \in 1..(cur - 1) : HandshakeOver(b)
          /\ \A d \in (cur + 1)..MaxConns : ~HandshakeOver(d) /\ hpc[d] = "none"
          /\ \A i \in 1..Len(incoming) : incoming[i] = cur + i)
  /\ [](\A c \in ConnIds :
          HandshakeOver(c) => \A b \in 1..(c - 1) : HandshakeOver(b))
  /\ [][(cur' # cur /\ cur' # 0) =>
          /\ cur = 0 /\ spc = "accept"
          /\ incoming # << >> /\ cur' = Head(incoming)]_vars
  /\ [][(\E c \in ConnIds : HandshakeOver(c)' /\ ~HandshakeOver(c)) =>
          /\ cur # 0 /\ hs'[cur] \in {"ok", "failed"} /\ cur' = 0
          /\ incoming' = incoming]_vars
  /\ [](\A c \in ConnIds :
          hpc[c] \in {"dial", "accept_bi", "copy"} => HandlerCanStep(c))

\* the second connection's handshake is in progress, the third connection has
\* arrived and waits for it, and the first connection's handler is copying
C24_Witness ==
  /\ spc = "handshake" /\ cur = 2
  /\ incoming = << 3 >> /\ hs[3] = "pending"
  /\ hpc[1] = "copy" /\ accepted[1] = 1

====
